---------------------------- MODULE Spec2Model ----------------------------
(***************************************************************************)
(* Model of the CoW-protocol order scripts testDev/tryTx.py (the order     *)
(* pipeline: quote -> build -> digest -> sign -> submit) and               *)
(* testDev/test1.py (digest and signature of one fixed order).             *)
(*                                                                         *)
(* Python values are tagged tuples, the tag first:                         *)
(*   <<"none">>            None                                            *)
(*   <<"str", chars>>      a text string, chars a sequence of characters   *)
(*   <<"hex", n, b>>       the text made of n "0x" prefixes followed by    *)
(*                         the hex digits of the byte string b             *)
(*   <<"int", digits>>     an integer, big-endian decimal digits           *)
(*   <<"bool", b>>         True / False                                    *)
(*   <<"dict", pairs>>     a dict, pairs the <<key, value>> pairs in       *)
(*                         insertion order                                 *)
(* Byte strings are symbolic terms:                                        *)
(*   <<"ascii", chars>>    the ASCII encoding of a text                    *)
(*   <<"keccak", pre>>     the 32-byte Keccak-256 hash of pre (the hash is *)
(*                         taken to be injective)                          *)
(*   <<"sig", key, h>>     the 65-byte r||s||v signature of hash h         *)
(***************************************************************************)
EXTENDS Integers, Sequences, FiniteSets, TLC

\* ------------------------------------------------------------------------
\* Bounds of the model
\* ------------------------------------------------------------------------

\* Number of distinct response bodies a collaborator may answer with.
NumBodies == 2

\* Cap on the request counters (the code itself never reaches it).
MaxRequests == 3

\* Number of rotations of the message map tried by the second execution.
MaxRotations == 3

\* ------------------------------------------------------------------------
\* Python values
\* ------------------------------------------------------------------------

None == <<"none">>

PyStr(chars) == <<"str", chars>>

PyInt(digits) == <<"int", digits>>

PyBool(b) == <<"bool", b>>

PyDict(pairs) == <<"dict", pairs>>

Tag(v) == v[1]

\* dict: the keys in insertion order
Keys(d) == [i \in 1..Len(d[2]) |-> d[2][i][1]]

Has(d, k) == \E i \in 1..Len(d[2]) : d[2][i][1] = k

\* d[k]
Get(d, k) == d[2][CHOOSE i \in 1..Len(d[2]) : d[2][i][1] = k][2]

\* d[k] = v : an existing key keeps its position, a new key is appended
Put(d, k, v) ==
    IF Has(d, k)
    THEN PyDict([i \in 1..Len(d[2]) |-> IF d[2][i][1] = k THEN <<k, v>> ELSE d[2][i]])
    ELSE PyDict(Append(d[2], <<k, v>>))

\* bool(v) for the values the scripts test
Truthy(v) ==
    CASE Tag(v) = "none" -> FALSE
      [] Tag(v) = "dict" -> Len(v[2]) > 0
      [] Tag(v) = "str"  -> Len(v[2]) > 0
      [] Tag(v) = "hex"  -> TRUE
      [] OTHER           -> TRUE

\* ------------------------------------------------------------------------
\* Byte strings, hashing, hex
\* ------------------------------------------------------------------------

Ascii(chars) == <<"ascii", chars>>

keccak(pre) == <<"keccak", pre>>

ByteLen(b) ==
    CASE b[1] = "ascii"  -> Len(b[2])
      [] b[1] = "keccak" -> 32
      [] b[1] = "sig"    -> 65
      [] OTHER           -> 0

\* HexBytes.hex(): the hex digits of b. hexbytes >= 1.0 (prefixed = FALSE)
\* returns them bare; hexbytes < 1.0 (prefixed = TRUE) puts "0x" in front.
HexBytes_hex(b, prefixed) == <<"hex", IF prefixed THEN 1 ELSE 0, b>>

\* "0x" + h
Prefix0x(h) == <<"hex", h[2] + 1, h[3]>>

\* number of hex digits of a hex text
HexDigits(h) == 2 * ByteLen(h[3])

\* ------------------------------------------------------------------------
\* Configuration (tryTx.py lines 11-19, test1.py lines 6-13)
\* ------------------------------------------------------------------------

PRIVATE_KEY == "542667984ecd2ef899fca4e6e10fc28fcfb964c47d820009d1c1e45451e0523f"

\* An address is <<"address", which, casing>>: the 20-byte value it names and
\* the casing of its hex text (Web3.to_checksum_address only changes casing).
Address(which, casing) == <<"address", which, casing>>

ADDRESS == Address("owner", "checksum")

WETH == Address("weth", "checksum")

COW == Address("cow", "checksum")

COWSWAP_CONTRACT == Address("settlement", "checksum")

\* chainId of Sepolia, 11155111
Sepolia == <<1,1,1,5,5,1,1,1>>

\* ------------------------------------------------------------------------
\* Integers as decimal digit sequences (Python integers are unbounded)
\* ------------------------------------------------------------------------

DigitChars == {"0", "1", "2", "3", "4", "5", "6", "7", "8", "9"}

DigitOf(c) ==
    CASE c = "0" -> 0 [] c = "1" -> 1 [] c = "2" -> 2 [] c = "3" -> 3
      [] c = "4" -> 4 [] c = "5" -> 5 [] c = "6" -> 6 [] c = "7" -> 7
      [] c = "8" -> 8 [] c = "9" -> 9

RECURSIVE StripZeros(_)
StripZeros(ds) ==
    IF Len(ds) > 1 /\ ds[1] = 0 THEN StripZeros(Tail(ds)) ELSE ds

\* int(text): defined when the text is a non-empty run of decimal digits
IsNumeral(chars) == Len(chars) > 0 /\ \A i \in 1..Len(chars) : chars[i] \in DigitChars

to_int(chars) == StripZeros([i \in 1..Len(chars) |-> DigitOf(chars[i])])

RECURSIVE DigitsLeq(_, _)
DigitsLeq(a, b) ==
    IF Len(a) # Len(b) THEN Len(a) < Len(b)
    ELSE IF Len(a) = 0 THEN TRUE
    ELSE IF a[1] # b[1] THEN a[1] < b[1]
    ELSE DigitsLeq(Tail(a), Tail(b))

\* 2^32 - 1 and 2^256 - 1
MaxUint(bits) ==
    IF bits = 32 THEN <<4,2,9,4,9,6,7,2,9,5>>
    ELSE <<1,1,5,7,9,2,0,8,9,2,3,7,3,1,6,1,9,5,4,2,3,5,7,0,9,8,5,0,0,8,6,8,7,9,0,7,8,
           5,3,2,6,9,9,8,4,6,6,5,6,4,0,5,6,4,0,3,9,4,5,7,5,8,4,0,0,7,9,1,3,1,2,9,6,3,
           9,9,3,5>>

\* ------------------------------------------------------------------------
\* The typed-data encoder (eth_account.messages.encode_typed_data, as called
\* at tryTx.py line 119 and test1.py line 62)
\* ------------------------------------------------------------------------

\* "types" of the typed data: EIP712Domain and Order, fields in declared order
EIP712Domain == << <<"name", "string">>, <<"version", "string">>,
                   <<"chainId", "uint256">>, <<"verifyingContract", "address">> >>

Order == << <<"sellToken", "address">>, <<"buyToken", "address">>,
            <<"sellAmount", "uint256">>, <<"buyAmount", "uint256">>,
            <<"validTo", "uint32">>, <<"appData", "bytes32">>,
            <<"feeAmount", "uint256">>, <<"kind", "bytes32">>,
            <<"partiallyFillable", "bool">>, <<"sellTokenBalance", "bytes32">>,
            <<"buyTokenBalance", "bytes32">>, <<"receiver", "address">> >>

Types(typeName) == IF typeName = "Order" THEN Order ELSE EIP712Domain

FieldNames(schema) == {schema[i][1] : i \in 1..Len(schema)}

UintBits(type) == IF type = "uint32" THEN 32 ELSE 256

Ok(word) == <<"ok", word>>

Err == <<"err">>

\* a bytes32 word: the bytes left-justified (their length says how much is padding)
BytesWord(b) == IF ByteLen(b) <= 32 THEN Ok(<<"bytes32", b>>) ELSE Err

UintWord(digits, bits) ==
    IF DigitsLeq(digits, MaxUint(bits)) THEN Ok(<<"uint", digits>>) ELSE Err

\* The 32-byte word a field value is encoded to, or Err when encoding raises.
encode_field(type, value) ==
    CASE Tag(value) = "none" -> Err
      [] type = "address" ->
            IF Tag(value) = "address" THEN Ok(<<"address", value[2]>>) ELSE Err
      [] type = "bool" ->
            Ok(<<"bool", IF Tag(value) = "bool" THEN value[2] ELSE Truthy(value)>>)
      [] type = "string" ->
            IF Tag(value) = "str" THEN Ok(<<"bytes32", keccak(Ascii(value[2]))>>) ELSE Err
      [] type \in {"uint256", "uint32"} ->
            CASE Tag(value) = "int" -> UintWord(value[2], UintBits(type))
              [] Tag(value) = "str" ->
                    IF IsNumeral(value[2])
                    THEN UintWord(to_int(value[2]), UintBits(type))
                    ELSE Err
              [] OTHER -> Err
      [] type = "bytes32" ->
            CASE Tag(value) \in {"ascii", "keccak"} -> BytesWord(value)
              \* a text that is not 0x-prefixed hex: its raw ASCII bytes
              [] Tag(value) = "str" -> BytesWord(Ascii(value[2]))
              \* "0x" + hex digits: the bytes they spell
              [] Tag(value) = "hex" /\ value[2] = 1 -> BytesWord(value[3])
              \* bare hex digits are taken as text (2 characters per byte);
              \* "0x0x..." is not hex at all
              [] Tag(value) = "hex" /\ value[2] # 1 -> Err
              [] OTHER -> Err
      [] OTHER -> Err

hash_type(typeName) == keccak(<<"type", typeName, Types(typeName)>>)

\* a slip: the keys of the value map that the schema does not declare are
\* encoded after the declared ones
encode_data_allKeys(typeName, data) ==
    [i \in 1..Len(Types(typeName)) |->
        encode_field(Types(typeName)[i][2],
                     IF Has(data, Types(typeName)[i][1])
                     THEN Get(data, Types(typeName)[i][1])
                     ELSE None)]
    \o [i \in 1..Len(SelectSeq(Keys(data),
                               LAMBDA k : k \notin FieldNames(Types(typeName)))) |->
            Ok(<<"extra", SelectSeq(Keys(data),
                               LAMBDA k : k \notin FieldNames(Types(typeName)))[i]>>)]

\* a slip: the declared fields are encoded in the order the value map holds them
encode_data_valueOrder(typeName, data) ==
    LET declared == SelectSeq(Keys(data), LAMBDA k : k \in FieldNames(Types(typeName)))
        TypeOf(k) == Types(typeName)[CHOOSE i \in 1..Len(Types(typeName)) :
                                        Types(typeName)[i][1] = k][2]
    IN  [i \in 1..Len(declared) |-> encode_field(TypeOf(declared[i]), Get(data, declared[i]))]

\* The words of the schema's fields, in schema order, looked up in the value
\* map by name; a field the map lacks encodes like None.
encode_data(typeName, data) ==
    [i \in 1..Len(Types(typeName)) |->
        encode_field(Types(typeName)[i][2],
                     IF Has(data, Types(typeName)[i][1])
                     THEN Get(data, Types(typeName)[i][1])
                     ELSE None)]

EncodeFails(typeName, data) ==
    \E i \in 1..Len(Types(typeName)) : encode_data(typeName, data)[i] = Err

hash_struct(typeName, data) ==
    keccak(<<"struct", hash_type(typeName), encode_data(typeName, data)>>)

\* SignableMessage(version, header, body): header is the domain's struct
\* hash, body the message's struct hash
encode_typed_data(domain, message) ==
    [version |-> "0x01",
     header  |-> hash_struct("EIP712Domain", domain),
     body    |-> hash_struct("Order", message)]

\* b"\x19Ethereum Signed Message:\n32" + digest, hashed
eth_message_hash(digest) ==
    keccak(<<"concat", "\\x19Ethereum Signed Message:\\n32", digest>>)

\* Account._sign_hash: deterministic (RFC 6979) ECDSA over secp256k1
sign_hash(hash, key) == <<"sig", key, hash>>

\* ------------------------------------------------------------------------
\* The collaborators' answers
\* ------------------------------------------------------------------------

Sell == <<"s","e","l","l">>

Buy == <<"b","u","y">>

Erc20 == <<"e","r","c","2","0">>

External == <<"e","x","t","e","r","n","a","l">>

Internal == <<"i","n","t","e","r","n","a","l">>

Eip712 == <<"e","i","p","7","1","2">>

EthSign == <<"e","t","h","s","i","g","n">>

PreSign == <<"p","r","e","s","i","g","n">>

\* the signingScheme values of the order book's API
SigningSchemes == {Eip712, EthSign, PreSign}

\* an HTTP response: status code and (JSON) body
Response(status, body) == <<"response", status, body>>

\* the bodies of error answers: {"errorType": <i>}
ErrorBodies == {PyDict(<< <<"errorType", PyInt(<<i>>)>> >>) : i \in 1..NumBodies}

DropKey(pairs, key) ==
    LET Keep(p) == p[1] # key IN SelectSeq(pairs, Keep)

\* A quote answer. amount is the text of sellAmount, validTo the expiry's
\* digits, missing a key the answer lacks ("" for none).
QuoteData(kind, stb, btb, scheme, amount, validTo, pf, missing) ==
    PyDict(DropKey(<<
        <<"quote", PyDict(DropKey(<<
            <<"sellToken", Address("weth", "lower")>>,
            <<"buyToken", Address("cow", "lower")>>,
            <<"receiver", Address("owner", "lower")>>,
            <<"sellAmount", PyStr(amount)>>,
            <<"buyAmount", PyStr(<<"5","0">>)>>,
            <<"validTo", PyInt(validTo)>>,
            <<"appData", PyStr(<<"{","}">>)>>,
            <<"feeAmount", PyStr(<<"0">>)>>,
            <<"kind", PyStr(kind)>>,
            <<"partiallyFillable", PyBool(pf)>>,
            <<"sellTokenBalance", PyStr(stb)>>,
            <<"buyTokenBalance", PyStr(btb)>>,
            <<"signingScheme", PyStr(scheme)>> >>, missing))>>,
        <<"from", Address("owner", "lower")>>,
        <<"verified", PyBool(TRUE)>> >>, missing))

QuoteBodies ==
    {QuoteData(kind, stb, btb, scheme, amount, validTo, pf, missing) :
        kind \in {Sell, Buy}, stb \in {Erc20, External}, btb \in {Erc20, Internal},
        scheme \in SigningSchemes,
        amount \in {<<"1","0","0">>, <<"1","e","3">>},
        validTo \in {<<1,7,4,6,4,3,6,8,6,6>>, <<4,2,9,4,9,6,7,2,9,6>>},
        pf \in BOOLEAN, missing \in {"", "receiver", "from"}}
    \cup {PyDict(<<>>)}

\* the answers of the Quote Service: 200 with a quote, 200 with a body that
\* is no JSON, and errors
QuoteResponses ==
    {Response(200, b) : b \in QuoteBodies}
    \cup {Response(200, PyStr(<<"<", "h", "t", "m", "l", ">">>))}
    \cup {Response(st, b) : st \in {400, 500}, b \in ErrorBodies}

SubmitResponses ==
    {Response(201, PyStr(<<"u","i","d">>))}
    \cup {Response(st, b) : st \in {400, 403}, b \in ErrorBodies}

Status(resp) == resp[2]

Body(resp) == resp[3]

\* the service's verdict on an answer: 2xx accepts the order
Verdict(resp) ==
    IF Status(resp) >= 200 /\ Status(resp) < 300 THEN "Accepted" ELSE "Rejected"

\* ------------------------------------------------------------------------
\* State of one run of tryTx.py
\* ------------------------------------------------------------------------

VARIABLES
    pc,             \* where main is
    hexPrefixed,    \* the installed hexbytes: does HexBytes.hex() prefix "0x"
    quote_response, \* the Quote Service's answer
    quote_data,     \* main's quote_data
    order,          \* main's order (the dict sign_order and submit_order get)
    digest,         \* sign_order's digest
    signed_value,   \* the hash sign_order handed to the signer
    signature,      \* main's signature (hex text)
    posted,         \* the JSON payload sent to the Order Submission Service
    submit_response,\* its answer
    result,         \* what main returned to its caller
    exc,            \* the exception that left main uncaught
    console,        \* what was printed
    trace,          \* the pipeline states visited, in order
    failedAt,       \* the step that failed ("" while none has)
    orderAtDigest,  \* the order as it was when the digest was computed
    quoteRequests,  \* requests sent to the Quote Service
    submitRequests, \* requests sent to the Order Submission Service
    calls,          \* calls of each function of the pipeline
    tpc, message, rotation, digests, signatures   \* the executions of test1.py

pipeVars == <<pc, hexPrefixed, quote_response, quote_data, order, digest,
              signed_value, signature, posted, submit_response, result, exc,
              console, trace, failedAt, orderAtDigest, quoteRequests,
              submitRequests, calls>>

testVars == <<tpc, message, rotation, digests, signatures>>

vars == <<pipeVars, testVars>>

Functions == {"get_order_quote", "construct_order", "sign_order", "submit_order"}

Terminal == {"returned", "raised"}

Called(f) == [calls EXCEPT ![f] = @ + 1]

\* a slip: any answer of the Quote Service is taken for a quote
QuoteOk_any(status) == TRUE

\* the test of line 37
QuoteOk(status) == status = 200

\* the test of line 146: "if not quote_data"
NotQuoteData(q) == ~Truthy(q)

\* a slip: a failed signing starts the pipeline over
AfterValueError_retry == "main"

\* where main goes when sign_order or submit_order raises ValueError
\* (lines 160-162: print and return)
AfterValueError == "returned"

\* a slip: a rejected order is submitted again
AfterSubmit_retry(resp) ==
    IF Verdict(resp) = "Rejected" THEN "submit" ELSE "returned"

\* where submit_order and main go once the service has answered (lines
\* 138-140 and 159): the answer is returned and main ends, whatever it says
AfterSubmit(resp) == "returned"

\* the value main hands to its caller: every path is a bare return
MainReturn(resp) == None

\* a slip: the signature is stored without its "0x"
SignatureField_bare(sig) == sig

\* the signature field submit_order sets (line 131)
SignatureField(sig) == Prefix0x(sig)

\* the hash sign_order hands to the signer (lines 121-122): always the
\* message-prefix wrap of the digest, whatever order["signingScheme"] says
SigningValue(ord, dig) == eth_message_hash(dig)

PipeInit ==
    /\ pc = "main"
    /\ quote_response = None
    /\ quote_data = None
    /\ order = None
    /\ digest = None
    /\ signed_value = None
    /\ signature = None
    /\ posted = None
    /\ submit_response = None
    /\ result = <<"running">>
    /\ exc = ""
    /\ console = <<>>
    /\ trace = <<>>
    /\ failedAt = ""
    /\ orderAtDigest = None
    /\ quoteRequests = 0
    /\ submitRequests = 0
    /\ calls = [f \in Functions |-> 0]

\* get_order_quote, lines 23-35: the request is sent
GetOrderQuote_Send ==
    /\ pc = "main"
    /\ quoteRequests < MaxRequests
    /\ pc' = "quote_wait"
    /\ quoteRequests' = quoteRequests + 1
    /\ calls' = Called("get_order_quote")
    /\ trace' = Append(trace, "QuoteRequested")
    /\ console' = Append(console, <<"getting quote">>)
    /\ UNCHANGED <<testVars, hexPrefixed, quote_response, quote_data, order, digest,
                   signed_value, signature, posted, submit_response, result,
                   exc, failedAt, orderAtDigest, submitRequests>>

\* get_order_quote, lines 37-44, and main, lines 145-147: the answer. A 200
\* answer whose body is no JSON makes .json() raise, outside main's try block.
GetOrderQuote_Response ==
    /\ pc = "quote_wait"
    /\ \E resp \in QuoteResponses :
        /\ quote_response' = resp
        /\ IF QuoteOk(Status(resp)) /\ Tag(Body(resp)) # "dict"
           THEN /\ pc' = "raised"
                /\ exc' = "JSONDecodeError"
                /\ failedAt' = "quote"
                /\ UNCHANGED <<quote_data, console, trace, result>>
           ELSE /\ IF QuoteOk(Status(resp))
                   THEN /\ quote_data' = Body(resp)
                        /\ console' = Append(console, <<"quote", Body(resp)>>)
                        /\ trace' = Append(trace, "QuoteReceived")
                   ELSE /\ quote_data' = None
                        /\ console' = console \o << <<"quote failed", Status(resp)>>,
                                                    <<"text", Body(resp)>> >>
                        /\ trace' = trace
                /\ IF NotQuoteData(quote_data')
                   THEN /\ pc' = "returned"
                        /\ result' = MainReturn(resp)
                        /\ failedAt' = "quote"
                   ELSE /\ pc' = "construct"
                        /\ UNCHANGED <<result, failedAt>>
                /\ exc' = exc
    /\ UNCHANGED <<testVars, hexPrefixed, order, digest, signed_value, signature,
                   posted, submit_response, orderAtDigest, quoteRequests,
                   submitRequests, calls>>

\* requests.post raises (no connection): nothing in main catches it
GetOrderQuote_NetworkError ==
    /\ pc = "quote_wait"
    /\ pc' = "raised"
    /\ exc' = "ConnectionError"
    /\ failedAt' = "quote"
    /\ UNCHANGED <<testVars, hexPrefixed, quote_response, quote_data, order, digest,
                   signed_value, signature, posted, submit_response, result,
                   console, trace, orderAtDigest, quoteRequests, submitRequests,
                   calls>>

\* json.dumps({"version": "0.9.0", "metadata": {}})
AppDataJson == <<"{\"version\": \"0.9.0\", \"metadata\": {}}">>

\* the keys construct_order reads from quote_data["quote"]
QuoteKeys == {"sellToken", "buyToken", "sellAmount", "buyAmount", "validTo",
              "feeAmount", "kind", "partiallyFillable", "sellTokenBalance",
              "buyTokenBalance", "receiver", "signingScheme"}

\* construct_order raises KeyError
ConstructRaises(q) ==
    \/ ~Has(q, "quote")
    \/ ~Has(q, "from")
    \/ \E k \in QuoteKeys : ~Has(Get(q, "quote"), k)

\* the kind / balance value construct_order stores: the quote's own text
OrderTag(quoteValue) == quoteValue

\* construct_order, lines 46-77. Lines 71-75 append receiver, from,
\* signingScheme and appDataHash to the eleven keys of the literal, in that
\* order; line 73 stores kind again, in place.
construct_order(q, prefixed) ==
    PyDict(<<
        <<"sellToken", Get(Get(q, "quote"), "sellToken")>>,
        <<"buyToken", Get(Get(q, "quote"), "buyToken")>>,
        <<"sellAmount", Get(Get(q, "quote"), "sellAmount")>>,
        <<"buyAmount", Get(Get(q, "quote"), "buyAmount")>>,
        <<"validTo", Get(Get(q, "quote"), "validTo")>>,
        <<"appData", Prefix0x(HexBytes_hex(keccak(Ascii(AppDataJson)), prefixed))>>,
        <<"feeAmount", Get(Get(q, "quote"), "feeAmount")>>,
        <<"kind", OrderTag(Get(Get(q, "quote"), "kind"))>>,
        <<"partiallyFillable", Get(Get(q, "quote"), "partiallyFillable")>>,
        <<"sellTokenBalance", OrderTag(Get(Get(q, "quote"), "sellTokenBalance"))>>,
        <<"buyTokenBalance", OrderTag(Get(Get(q, "quote"), "buyTokenBalance"))>>,
        <<"receiver", Get(Get(q, "quote"), "receiver")>>,
        <<"from", Get(q, "from")>>,
        <<"signingScheme", Get(Get(q, "quote"), "signingScheme")>>,
        <<"appDataHash", Prefix0x(HexBytes_hex(keccak(Ascii(AppDataJson)), prefixed))>> >>)

\* sign_order's domain, lines 82-87
Domain ==
    PyDict(<< <<"name", PyStr(<<"Gnosis Protocol">>)>>,
              <<"version", PyStr(<<"v2">>)>>,
              <<"chainId", PyInt(Sepolia)>>,
              <<"verifyingContract", COWSWAP_CONTRACT>> >>)

\* the classes of the exceptions the encoder raises: main catches ValueError
\* only; which one a bad value raises depends on the installed libraries
EncoderExceptions == {"ValueError", "EncodingError"}

\* main, line 150: construct_order
ConstructOrder ==
    /\ pc = "construct"
    /\ calls' = Called("construct_order")
    /\ IF ConstructRaises(quote_data)
       THEN /\ pc' = "raised"
            /\ exc' = "KeyError"
            /\ failedAt' = "build"
            /\ UNCHANGED <<order, console, trace>>
       ELSE /\ order' = construct_order(quote_data, hexPrefixed)
            /\ pc' = "digest"
            /\ console' = Append(console, <<"order", order'>>)
            /\ trace' = Append(trace, "OrderBuilt")
            /\ UNCHANGED <<exc, failedAt>>
    /\ UNCHANGED <<testVars, hexPrefixed, quote_response, quote_data, digest, signed_value,
                   signature, posted, submit_response, result, orderAtDigest,
                   quoteRequests, submitRequests>>

\* sign_order, lines 81-120: the typed data is encoded and its body taken as
\* the digest; an encoding error leaves sign_order (and main's try block)
SignOrder_Digest ==
    /\ pc = "digest"
    /\ calls' = Called("sign_order")
    /\ IF EncodeFails("Order", order)
       THEN \E cls \in EncoderExceptions :
            /\ failedAt' = "sign"
            /\ IF cls = "ValueError"
               THEN /\ pc' = AfterValueError
                    /\ console' = Append(console, <<"error", cls>>)
                    /\ result' = IF pc' \in Terminal THEN MainReturn(None) ELSE result
                    /\ exc' = exc
               ELSE /\ pc' = "raised"
                    /\ exc' = cls
                    /\ UNCHANGED <<console, result>>
            /\ UNCHANGED <<digest, orderAtDigest, trace>>
       ELSE /\ digest' = encode_typed_data(Domain, order).body
            /\ orderAtDigest' = order
            /\ pc' = "sign"
            /\ trace' = Append(trace, "DigestComputed")
            /\ UNCHANGED <<failedAt, console, result, exc>>
    /\ UNCHANGED <<testVars, hexPrefixed, quote_response, quote_data, order, signed_value,
                   signature, posted, submit_response, quoteRequests,
                   submitRequests>>

\* sign_order, lines 121-127, and main, line 156: the digest is wrapped and signed
SignOrder_Sign ==
    /\ pc = "sign"
    /\ signed_value' = SigningValue(order, digest)
    /\ signature' = HexBytes_hex(sign_hash(signed_value', PRIVATE_KEY), hexPrefixed)
    /\ console' = Append(console, <<"signature", signature'>>)
    /\ trace' = Append(trace, "Signed")
    /\ pc' = "submit"
    /\ UNCHANGED <<testVars, hexPrefixed, quote_response, quote_data, order, digest, posted,
                   submit_response, result, exc, failedAt, orderAtDigest,
                   quoteRequests, submitRequests, calls>>

\* submit_order, lines 131-137: the signature is stored in the order and the
\* order is posted
SubmitOrder_Send ==
    /\ pc = "submit"
    /\ submitRequests < MaxRequests
    /\ calls' = Called("submit_order")
    /\ order' = Put(order, "signature", SignatureField(signature))
    /\ IF Truthy(Get(order', "signature"))
       THEN /\ posted' = order'
            /\ submitRequests' = submitRequests + 1
            /\ console' = Append(console, <<"submitting">>)
            /\ trace' = Append(trace, "Submitted")
            /\ pc' = "submit_wait"
            /\ UNCHANGED result
       ELSE /\ pc' = "returned"
            /\ result' = MainReturn(None)
            /\ UNCHANGED <<posted, submitRequests, console, trace>>
    /\ UNCHANGED <<testVars, hexPrefixed, quote_response, quote_data, digest, signed_value,
                   signature, submit_response, exc, failedAt, orderAtDigest,
                   quoteRequests>>

\* submit_order, lines 138-140, and the end of main: the answer is printed,
\* returned to main and dropped there
SubmitOrder_Response ==
    /\ pc = "submit_wait"
    /\ \E resp \in SubmitResponses :
        /\ submit_response' = resp
        /\ console' = console \o << <<"status", Status(resp)>>, <<"text", Body(resp)>> >>
        /\ trace' = Append(trace, Verdict(resp))
        /\ pc' = AfterSubmit(resp)
        /\ result' = IF pc' \in Terminal THEN MainReturn(resp) ELSE result
    /\ UNCHANGED <<testVars, hexPrefixed, quote_response, quote_data, order, digest,
                   signed_value, signature, posted, exc, failedAt, orderAtDigest,
                   quoteRequests, submitRequests, calls>>

\* requests.post raises: a requests exception is no ValueError
SubmitOrder_NetworkError ==
    /\ pc = "submit_wait"
    /\ pc' = "raised"
    /\ exc' = "ConnectionError"
    /\ UNCHANGED <<testVars, hexPrefixed, quote_response, quote_data, order, digest,
                   signed_value, signature, posted, submit_response, result,
                   console, trace, failedAt, orderAtDigest, quoteRequests,
                   submitRequests, calls>>

\* ------------------------------------------------------------------------
\* test1.py: the digest and the signature of one order, executed twice
\* ------------------------------------------------------------------------

\* test1.py's order, lines 16-29; kind, fee, flag and expiry are drawn from
\* small sets
TestOrder(kindTag, fee, pf, validTo) ==
    PyDict(<<
        <<"sellToken", Address("weth", "checksum")>>,
        <<"buyToken", Address("cow", "checksum")>>,
        <<"sellAmount", PyInt(<<4,7,3,1,0,7,7,9,4,6,6,5,4,8,9,1,6,0>>)>>,
        <<"buyAmount", PyInt(<<1,6,4,4,2,8,9,6,2,0,4,3,6,1,3,7,3,7,4,1,6>>)>>,
        <<"validTo", PyInt(validTo)>>,
        <<"appData", keccak(Ascii(AppDataJson))>>,
        <<"feeAmount", PyInt(<<fee>>)>>,
        <<"kind", keccak(Ascii(kindTag))>>,
        <<"partiallyFillable", PyBool(pf)>>,
        <<"sellTokenBalance", keccak(Ascii(Erc20))>>,
        <<"buyTokenBalance", keccak(Ascii(Erc20))>>,
        <<"receiver", Address("owner", "checksum")>> >>)

\* the messages the two executions are tried on: test1.py's order, and orders
\* as construct_order builds them for sign_order
TestMessages ==
    {TestOrder(k, fee, pf, validTo) :
        k \in {Sell, Buy}, fee \in {0, 1}, pf \in BOOLEAN,
        validTo \in {<<1,7,4,6,4,3,6,8,6,6>>, <<4,2,9,4,9,6,7,2,9,6>>}}
    \cup {construct_order(QuoteData(k, Erc20, btb, sch, <<"1","0","0">>,
                                    <<1,7,4,6,4,3,6,8,6,6>>, TRUE, ""), FALSE) :
            k \in {Sell, Buy}, btb \in {Erc20, Internal}, sch \in {Eip712, EthSign}}

\* the same map with its keys inserted in another order
Rotate(d, n) ==
    PyDict([i \in 1..Len(d[2]) |-> d[2][((i - 1 + n) % Len(d[2])) + 1]])

\* the map the next execution reads: the first reads the message as written,
\* the second the same message in rotated key order, with the signature key
\* an earlier submit_order may have left in it
MessageOf(run) ==
    IF run = 1 THEN message
    ELSE Put(Rotate(message, rotation), "signature",
             Prefix0x(HexBytes_hex(signatures[1], FALSE)))

TestIdle ==
    /\ tpc = "idle" /\ message = None /\ rotation = 0
    /\ digests = <<>> /\ signatures = <<>>

\* lines 60-65 of test1.py (89-120 of sign_order): the digest
Test_Digest ==
    /\ tpc = "digest"
    /\ IF EncodeFails("Order", MessageOf(Len(digests) + 1))
       THEN /\ tpc' = "raised"
            /\ UNCHANGED digests
       ELSE /\ digests' = Append(digests,
                    encode_typed_data(Domain, MessageOf(Len(digests) + 1)).body)
            /\ tpc' = "sign"
    /\ UNCHANGED <<pipeVars, message, rotation, signatures>>

\* lines 71-82 of test1.py (121-127 of sign_order): the signature; the second
\* execution follows the first
Test_Sign ==
    /\ tpc = "sign"
    /\ signatures' = Append(signatures,
            sign_hash(eth_message_hash(digests[Len(digests)]), PRIVATE_KEY))
    /\ tpc' = IF Len(signatures') = 2 THEN "done" ELSE "digest"
    /\ UNCHANGED <<pipeVars, message, rotation, digests>>

InitDet ==
    /\ PipeInit
    /\ hexPrefixed = FALSE
    /\ tpc = "digest"
    /\ message \in TestMessages
    /\ rotation \in 0..MaxRotations
    /\ digests = <<>>
    /\ signatures = <<>>

NextDet ==
    \/ Test_Digest
    \/ Test_Sign

SpecDet == InitDet /\ [][NextDet]_vars

Init ==
    /\ PipeInit
    /\ hexPrefixed \in BOOLEAN
    /\ TestIdle

Next ==
    \/ GetOrderQuote_Send
    \/ GetOrderQuote_Response
    \/ GetOrderQuote_NetworkError
    \/ ConstructOrder
    \/ SignOrder_Digest
    \/ SignOrder_Sign
    \/ SubmitOrder_Send
    \/ SubmitOrder_Response
    \/ SubmitOrder_NetworkError

Spec == Init /\ [][Next]_vars

\* the pipeline with the scheduling the code has: a sequential program takes
\* its next step, and every request is answered
FairSpec == Spec /\ WF_vars(Next)

\* ------------------------------------------------------------------------
\* Properties
\* ------------------------------------------------------------------------

Canon == <<"QuoteRequested", "QuoteReceived", "OrderBuilt", "DigestComputed",
           "Signed", "Submitted">>

Restrict(d, names) == PyDict(SelectSeq(d[2], LAMBDA p : p[1] \in names))

IsResponse(r) == Tag(r) = "response"

\* C1: the pipeline states are visited in the order QuoteRequested,
\* QuoteReceived, OrderBuilt, DigestComputed, Signed, Submitted, then Accepted
\* or Rejected, none skipped or revisited; an order is submitted only after
\* the quote of this run was received with status 200, the order built from
\* it, its digest computed and that digest signed.
C1_StatesInOrder ==
    /\ Len(trace) <= 7
    /\ \A i \in 1..Len(trace) :
          IF i <= 6 THEN trace[i] = Canon[i] ELSE trace[i] \in {"Accepted", "Rejected"}
    /\ submitRequests > 0 =>
          /\ Len(trace) >= 6
          /\ IsResponse(quote_response) /\ Status(quote_response) = 200
          /\ quote_data = Body(quote_response)
          /\ orderAtDigest = construct_order(quote_data, hexPrefixed)
          /\ digest = encode_typed_data(Domain, orderAtDigest).body
          /\ signature[3] = sign_hash(signed_value, PRIVATE_KEY)

C1_Witness ==
    /\ pc = "returned"
    /\ Len(trace) = 7
    /\ trace[7] = "Accepted"

\* C2: the signingScheme tag of a submitted order names the wrap that was
\* applied before signing: tag eip712, the digest itself was signed; tag
\* ethsign, the message-prefix hash of the digest was signed.
C2_TagNamesWrap ==
    submitRequests > 0 =>
        LET tag == Get(posted, "signingScheme")[2]
        IN  /\ tag = Eip712 => signed_value = digest
            /\ tag = EthSign => signed_value = eth_message_hash(digest)

\* C3: after a failed step nothing later runs and nothing is submitted: a
\* non-200 quote answer is followed by no call of construct_order, sign_order
\* or submit_order; a failed build by no call of sign_order or submit_order; a
\* failed signing by no call of submit_order; and no request reaches the Order
\* Submission Service.
C3_NoStepAfterFailure ==
    /\ (IsResponse(quote_response) /\ Status(quote_response) # 200) =>
          /\ calls["construct_order"] = 0
          /\ calls["sign_order"] = 0
          /\ calls["submit_order"] = 0
          /\ submitRequests = 0
          /\ pc \in Terminal
    /\ failedAt = "build" =>
          /\ calls["sign_order"] = 0
          /\ calls["submit_order"] = 0
          /\ submitRequests = 0
          /\ pc \in Terminal
    /\ failedAt = "sign" =>
          /\ calls["submit_order"] = 0
          /\ submitRequests = 0
          /\ pc \in Terminal

C3_Witness ==
    /\ IsResponse(quote_response)
    /\ Status(quote_response) = 500
    /\ pc = "returned"

\* C4: in one run each collaborator is requested at most once.
C4_NoRetry ==
    /\ quoteRequests <= 1
    /\ submitRequests <= 1

C4_Witness ==
    /\ pc = "returned"
    /\ IsResponse(submit_response)
    /\ Verdict(submit_response) = "Rejected"
    /\ quoteRequests = 1
    /\ submitRequests = 1

\* C5: when the Quote Service answers non-200 or the Order Submission Service
\* rejects the order, the run ends and the result main hands to its caller
\* holds that answer's status and body.
C5_ResultKeepsResponse ==
    pc \in Terminal =>
        /\ (IsResponse(quote_response) /\ Status(quote_response) # 200) =>
              result = quote_response
        /\ (IsResponse(submit_response) /\ Verdict(submit_response) = "Rejected") =>
              result = submit_response

\* C6: the payload sent to the Order Submission Service is the order that was
\* signed, every key it had when the digest was computed unchanged, plus a
\* signature key holding "0x" (once) and the 130 hex digits of the 65-byte
\* signature made in this run over this order's digest.
C6_PayloadIsSignedOrder ==
    submitRequests > 0 =>
        /\ \A i \in 1..Len(Keys(orderAtDigest)) :
              /\ Has(posted, Keys(orderAtDigest)[i])
              /\ Get(posted, Keys(orderAtDigest)[i])
                   = Get(orderAtDigest, Keys(orderAtDigest)[i])
        /\ {Keys(posted)[i] : i \in 1..Len(Keys(posted))}
             = {Keys(orderAtDigest)[i] : i \in 1..Len(Keys(orderAtDigest))}
               \cup {"signature"}
        /\ Get(posted, "signature")
             = <<"hex", 1, sign_hash(SigningValue(orderAtDigest,
                                hash_struct("Order", orderAtDigest)), PRIVATE_KEY)>>
        /\ HexDigits(Get(posted, "signature")) = 130

C6_Witness ==
    /\ pc = "submit_wait"
    /\ submitRequests = 1
    /\ Has(posted, "signature")
    /\ ~Has(orderAtDigest, "signature")

\* C7: in an order that reaches the digest step, kind, sellTokenBalance and
\* buyTokenBalance are 32-byte Keccak-256 hashes of their tags, not the tags.
C7_TagsAreHashed ==
    Tag(order) = "dict" =>
        \A k \in {"kind", "sellTokenBalance", "buyTokenBalance"} :
            /\ Tag(Get(order, k)) = "keccak"
            /\ ByteLen(Get(order, k)) = 32

\* C8: the digest computed for an order that carries keys the Order schema
\* does not declare equals the digest of the same order restricted to the
\* twelve declared fields, and so does the signature.
C8_SchemaIsAuthoritative ==
    Tag(orderAtDigest) = "dict" =>
        /\ digest = encode_typed_data(Domain,
                        Restrict(orderAtDigest, FieldNames(Order))).body
        /\ Tag(signature) = "hex" =>
              signature[3] = sign_hash(eth_message_hash(
                    encode_typed_data(Domain,
                        Restrict(orderAtDigest, FieldNames(Order))).body), PRIVATE_KEY)

C8_Witness ==
    /\ Tag(signature) = "hex"
    /\ Has(orderAtDigest, "from")
    /\ Has(orderAtDigest, "signingScheme")
    /\ Has(orderAtDigest, "appDataHash")
    /\ Len(Restrict(orderAtDigest, FieldNames(Order))[2]) = 12
    /\ Len(orderAtDigest[2]) = 15

\* C9: two executions of the digest and signing steps on the same message
\* give the same digest and the same signature, whatever the key order of the
\* message map and whatever an earlier run left in it.
C9_Deterministic ==
    /\ Len(digests) = 2 => digests[1] = digests[2]
    /\ Len(signatures) = 2 => signatures[1] = signatures[2]

C9_Witness ==
    /\ tpc = "done"
    /\ rotation > 0
    /\ Len(signatures) = 2
    /\ Keys(MessageOf(2)) # Keys(MessageOf(1))

\* C10: every run ends (returns, or is left by an exception) after at most one
\* call of each of get_order_quote, construct_order, sign_order and
\* submit_order, and takes no step once it has ended.
C10_RunEnds ==
    /\ <>[](pc \in Terminal)
    /\ [](\A f \in Functions : calls[f] <= 1)
    /\ [][pc \notin Terminal]_vars

C10_Witness ==
    /\ pc = "returned"
    /\ \A f \in Functions : calls[f] = 1
    /\ Len(trace) = 7

=============================================================================
